---------------------------- MODULE Spec2Model ----------------------------
(***************************************************************************)
(* Model of MsaServer/mmseqs-server/backend/add_tax_to_msa.py: parsing of  *)
(* A3M/FASTA text, header decomposition, the left join with the taxonomy   *)
(* table written by `mmseqs convertalis`, the annotated output, and the    *)
(* paralog selection.                                                      *)
(*                                                                         *)
(* A Python str is a sequence of one-character strings; a list is a        *)
(* sequence; a DataFrame is a sequence of rows of equal width.  A raised   *)
(* exception is the name of its type, "" standing for no exception.        *)
(***************************************************************************)
EXTENDS Naturals, Sequences, FiniteSets, TLC

VARIABLES
    pc,           \* position in add_tax_to_msa (or in the round trip)
    paralogs,     \* argument `paralogs`
    isdir,        \* os.path.isdir(msa_path)
    listing,      \* the paths glob finds (isdir) or <<msa_path>>
    raw_table,    \* rows of the file at convertalis_path, as read_csv tokenizes it
    convertalis,  \* the DataFrame `convertalis` after line 74
    fns,          \* the list `fns`
    idx,          \* position of the for loop in fns (1-based)
    text,         \* f.read() of the file being processed / the round trip's input
    msa_df,       \* the DataFrame `msa_df`
    m,            \* the DataFrame `m` (after astype(str) and drop of target)
    fs,           \* files written by to_fasta: sequence of [name, text], in write order
    err,          \* type of the exception that ended the run, "" if none
    rt            \* round trip: [parsed, written, reparsed]

vars == <<pc, paralogs, isdir, listing, raw_table, convertalis, fns, idx,
          text, msa_df, m, fs, err, rt>>

---------------------------------------------------------------------------
(* Characters and strings *)

TAB == "\t"
NL == "\n"
GT == ">"
PIPE == "|"
HASH == "#"
SPACE == " "
USCORE == "_"

NoneStr == <<"N", "o", "n", "e">>
NanStr == <<"n", "a", "n">>

\* Missing values inside a DataFrame, before astype(str): Python None (padding
\* of ragged rows) and float NaN (a missing value of read_csv or of the merge).
\* Neither is a string: each is a one-element sequence of a token that is no character.
NoneCell == <<"<None>">>
NaNCell == <<"<NaN>">>

\* str.isspace for the characters of the model
IsSpace(c) == c \in {SPACE, TAB, NL}

\* Code points, for the comparison of strings
Ord(c) ==
    CASE c = TAB -> 9 [] c = NL -> 10 [] c = SPACE -> 32 [] c = HASH -> 35
      [] c = "-" -> 45 [] c = "." -> 46
      [] c = "0" -> 48 [] c = "1" -> 49 [] c = "2" -> 50 [] c = "3" -> 51
      [] c = "4" -> 52 [] c = "5" -> 53 [] c = "6" -> 54 [] c = "7" -> 55
      [] c = "8" -> 56 [] c = "9" -> 57
      [] c = GT -> 62
      [] c = "A" -> 65 [] c = "C" -> 67 [] c = "G" -> 71 [] c = "H" -> 72
      [] c = "M" -> 77 [] c = "N" -> 78
      [] c = USCORE -> 95
      [] c = "a" -> 97 [] c = "b" -> 98 [] c = "c" -> 99 [] c = "e" -> 101
      [] c = "h" -> 104 [] c = "k" -> 107 [] c = "n" -> 110 [] c = "o" -> 111
      [] c = "p" -> 112 [] c = "q" -> 113 [] c = "s" -> 115 [] c = "t" -> 116
      [] c = "u" -> 117 [] c = "v" -> 118 [] c = "w" -> 119 [] c = "x" -> 120
      [] c = "y" -> 121 [] c = "z" -> 122
      [] c = PIPE -> 124

RECURSIVE StrLess(_, _)
\* a < b for Python str: lexicographic by code point, a proper prefix is smaller
StrLess(a, b) ==
    IF b = <<>> THEN FALSE
    ELSE IF a = <<>> THEN TRUE
    ELSE IF Head(a) = Head(b) THEN StrLess(Tail(a), Tail(b))
    ELSE Ord(Head(a)) < Ord(Head(b))

\* c in s
Contains(s, c) == \E i \in 1..Len(s) : s[i] = c

\* s.startswith(c) for a one-character c
StartsWith(s, c) == Len(s) > 0 /\ s[1] = c

RECURSIVE SplitOn(_, _)
\* s.split(c): k separators give k+1 fields, empty fields kept
SplitOn(s, c) ==
    IF ~Contains(s, c) THEN <<s>>
    ELSE LET i == CHOOSE k \in 1..Len(s) :
                      s[k] = c /\ \A j \in 1..(k-1) : s[j] # c
         IN  <<SubSeq(s, 1, i-1)>> \o SplitOn(SubSeq(s, i+1, Len(s)), c)

RECURSIVE LStrip(_)
LStrip(s) == IF s # <<>> /\ IsSpace(Head(s)) THEN LStrip(Tail(s)) ELSE s

RECURSIVE RStrip(_)
RStrip(s) ==
    IF s # <<>> /\ IsSpace(s[Len(s)]) THEN RStrip(SubSeq(s, 1, Len(s)-1)) ELSE s

\* s.strip()
Strip(s) == RStrip(LStrip(s))

\* s.splitlines(): like split on the line break, without the empty last piece
\* that a final line break (or an empty string) leaves
SplitLines(s) ==
    LET parts == SplitOn(s, NL)
    IN  IF parts[Len(parts)] = <<>> THEN SubSeq(parts, 1, Len(parts)-1) ELSE parts

RECURSIVE Join(_, _)
\* sep.join(list)
Join(list, sep) ==
    IF list = <<>> THEN <<>>
    ELSE IF Len(list) = 1 THEN list[1]
    ELSE list[1] \o sep \o Join(Tail(list), sep)

\* s.replace(a, b) for one-character a and b
Replace(s, a, b) == [i \in 1..Len(s) |-> IF s[i] = a THEN b ELSE s[i]]

---------------------------------------------------------------------------
(* parse_fasta *)

RECURSIVE ParseLines(_, _, _)
\* The loop of parse_fasta over the lines
ParseLines(lines, sequences, descriptions) ==
    IF lines = <<>>
    THEN [err |-> "", sequences |-> sequences, descriptions |-> descriptions]
    ELSE LET line == Strip(Head(lines))
         IN  IF StartsWith(line, HASH)
             THEN ParseLines(Tail(lines), sequences, descriptions)
             ELSE IF StartsWith(line, GT)
             THEN ParseLines(Tail(lines), Append(sequences, <<>>),
                             Append(descriptions, Tail(line)))
             ELSE IF line = <<>>
             THEN ParseLines(Tail(lines), sequences, descriptions)
             ELSE IF sequences = <<>>
             \* index = -1 and sequences = []: sequences[index] raises
             THEN [err |-> "IndexError", sequences |-> sequences,
                   descriptions |-> descriptions]
             ELSE ParseLines(Tail(lines),
                             [sequences EXCEPT ![Len(sequences)] = @ \o line],
                             descriptions)

\* parse_fasta(fasta_string), for a string that is not the path of a file
\* (line 18-19 reads the file of that path instead; add_tax_to_msa hands the
\* text it has read)
parse_fasta(fasta_string) == ParseLines(SplitLines(fasta_string), <<>>, <<>>)

---------------------------------------------------------------------------
(* to_fasta *)

\* Line 56 for one non-empty header
PrefixGt(seq_id) == IF seq_id[1] # GT THEN <<GT>> \o seq_id ELSE seq_id

RECURSIVE Interleave(_, _)
\* Line 57: [val for pair in zip(seq_id_list, seq_list) for val in pair]
Interleave(ids, seqs) ==
    IF ids = <<>> \/ seqs = <<>> THEN <<>>
    ELSE <<ids[1], seqs[1]>> \o Interleave(Tail(ids), Tail(seqs))

\* to_fasta(seq_list, seq_id_list, output_fn): the exception raised and the
\* text written.  seq_id[0] of an empty header raises before the file is opened.
to_fasta(seq_list, seq_id_list) ==
    IF \E i \in 1..Len(seq_id_list) : seq_id_list[i] = <<>>
    THEN [err |-> "IndexError", text |-> <<>>]
    ELSE [err |-> "",
          text |-> Join(Interleave([i \in 1..Len(seq_id_list) |->
                                        PrefixGt(seq_id_list[i])],
                                   seq_list),
                        <<NL>>)]

---------------------------------------------------------------------------
(* parse_fasta_as_df *)

\* The separator read off the first description
sep_char_of_first(descriptions) ==
    IF Contains(descriptions[1], PIPE) THEN PIPE ELSE TAB

\* Line 46-47: the separator is read off the LAST description only
sep_char_of(descriptions) ==
    IF Contains(descriptions[Len(descriptions)], PIPE) THEN PIPE ELSE TAB

RECURSIVE MaxLenOf(_)
MaxLenOf(rows) ==
    IF rows = <<>> THEN 0
    ELSE LET r == MaxLenOf(Tail(rows))
         IN  IF Len(Head(rows)) > r THEN Len(Head(rows)) ELSE r

\* pd.DataFrame(rows) of ragged lists: every row is as wide as the widest, the
\* missing cells are `fill` (None in a column of Python strings)
Frame(rows, fill) ==
    LET w == MaxLenOf(rows)
    IN  [i \in 1..Len(rows) |->
            [j \in 1..w |-> IF j <= Len(rows[i]) THEN rows[i][j] ELSE fill]]

\* Line 48: one row per record, the sequence and then the fields of the header
HeaderRows(msa, sep) ==
    [i \in 1..Len(msa.sequences) |->
        <<msa.sequences[i]>> \o SplitOn(msa.descriptions[i], sep)]

\* parse_fasta_as_df(fasta_string): the exception raised and the DataFrame
parse_fasta_as_df(fasta_string) ==
    LET msa == parse_fasta(fasta_string)
    IN  IF msa.err # "" THEN [err |-> msa.err, df |-> <<>>]
        \* msa[1][-1] of an empty list
        ELSE IF msa.descriptions = <<>> THEN [err |-> "IndexError", df |-> <<>>]
        ELSE [err |-> "",
              df |-> Frame(HeaderRows(msa, sep_char_of(msa.descriptions)), NoneCell)]

---------------------------------------------------------------------------
(* The taxonomy table: lines 70-74 *)

\* Number of columns the names of line 71 are assigned to
NumTableColumns == 5

\* str(float(s)) for the e-values the model reads: a mantissa with a one-digit
\* negative exponent prints with a two-digit exponent (1e-5 -> 1e-05), a
\* numeral without point or exponent prints with ".0", others are unchanged
FloatRepr(s) ==
    IF Contains(s, "e")
    THEN LET parts == SplitOn(s, "e")
             ex == parts[2]
         IN  IF Len(ex) = 2 /\ ex[1] = "-"
             THEN parts[1] \o <<"e", "-", "0", ex[2]>>
             ELSE s
    ELSE IF Contains(s, ".") THEN s
    ELSE s \o <<".", "0">>

\* str of an int64 value that sits in a float64 column
IntAsFloatRepr(s) == s \o <<".", "0">>

\* read_csv on one field of the column at position col (1-based): an empty
\* field is NaN, column 2 (evalue) is parsed as float64 and kept as its repr
ReadField(field, col) ==
    IF field = <<>> THEN NaNCell
    ELSE IF col = 2 THEN FloatRepr(field)
    ELSE field

\* pd.read_csv(path, sep='\t', header=None) with the C parser: the first row
\* fixes the number of columns; a later row with more fields raises, a row
\* with fewer fields is padded with NaN.  raw is the rows of the file, blank
\* lines left out, each split at the tabs.  The tables the model reads have
\* text in columns 1, 4 and 5 (object columns), float literals in column 2
\* and decimal numerals in column 3
read_csv(raw) ==
    IF raw = <<>> THEN [err |-> "EmptyDataError", df |-> <<>>]
    ELSE IF \E i \in 1..Len(raw) : Len(raw[i]) > Len(raw[1])
    THEN [err |-> "ParserError", df |-> <<>>]
    ELSE [err |-> "",
          df |-> [i \in 1..Len(raw) |->
                    [j \in 1..Len(raw[1]) |->
                        IF j <= Len(raw[i]) THEN ReadField(raw[i][j], j)
                        ELSE NaNCell]]]

\* Series.str.replace(' ', '_') on one cell: NaN stays NaN
StrReplaceCell(cell) == IF cell = NaNCell THEN cell ELSE Replace(cell, SPACE, USCORE)

RECURSIVE drop_duplicates(_)
\* DataFrame.drop_duplicates(): the first of equal rows is kept, order is kept
drop_duplicates(df) ==
    IF df = <<>> THEN <<>>
    ELSE LET init == drop_duplicates(SubSeq(df, 1, Len(df)-1))
             last == df[Len(df)]
         IN  IF \E i \in 1..Len(init) : init[i] = last THEN init
             ELSE Append(init, last)

\* Lines 70-74.  Columns: 1 target, 2 evalue, 3 taxid, 4 taxname, 5 taxlineage
load_convertalis(raw) ==
    LET r == read_csv(raw)
    IN  IF r.err # "" THEN r
        \* line 71: five names for a frame of another width
        ELSE IF Len(r.df[1]) # NumTableColumns
        THEN [err |-> "ValueError", df |-> <<>>]
        ELSE [err |-> "",
              df |-> drop_duplicates(
                        [i \in 1..Len(r.df) |->
                            [j \in 1..NumTableColumns |->
                                IF j \in {4, 5} THEN StrReplaceCell(r.df[i][j])
                                ELSE r.df[i][j]]])]

---------------------------------------------------------------------------
(* The join and the annotated headers: lines 86-94 *)

\* Rows of the table whose target equals id, in table order
Matches(conv, id) ==
    SelectSeq(conv, LAMBDA row : row[1] = id)

RECURSIVE Flatten(_)
Flatten(lists) == IF lists = <<>> THEN <<>> ELSE Head(lists) \o Flatten(Tail(lists))

\* A join that looks the id up in a key -> row table: one row per record
LeftMergeFirstHit(df, conv) ==
    [i \in 1..Len(df) |->
        LET hits == Matches(conv, df[i][2])
        IN  IF hits = <<>> THEN df[i] \o [j \in 1..NumTableColumns |-> NaNCell]
            ELSE df[i] \o hits[1]]

\* msa_df.merge(convertalis, how='left', left_on='id', right_on='target'):
\* every left row, in order, once per matching right row, or once with NaN
LeftMerge(df, conv) ==
    Flatten([i \in 1..Len(df) |->
        LET hits == Matches(conv, df[i][2])
        IN  IF hits = <<>>
            THEN <<df[i] \o [j \in 1..NumTableColumns |-> NaNCell]>>
            ELSE [k \in 1..Len(hits) |-> df[i] \o hits[k]]])

\* Missing values written as empty strings
CellStrBlank(cell) == IF cell \in {NoneCell, NaNCell} THEN <<>> ELSE cell

\* astype(str) of one cell of an object column
CellStr(cell) ==
    IF cell = NoneCell THEN NoneStr
    ELSE IF cell = NaNCell THEN NanStr
    ELSE cell

\* Line 89-90: the merged frame as strings, without the target column.  With
\* w the width of msa_df, the columns are 1 seq, 2 id, 3..w the other header
\* fields, w+1 evalue, w+2 taxid, w+3 taxname, w+4 taxlineage.  taxid is an
\* int64 column unless a NaN (of the table or of an unmatched row) makes it float64
merged_frame(df, conv) ==
    LET mg == LeftMerge(df, conv)
        w == Len(df[1])
        taxidFloat == \/ \E i \in 1..Len(mg) : mg[i][w + 3] = NaNCell
                      \/ \E k \in 1..Len(conv) : conv[k][3] = NaNCell
    IN  [i \in 1..Len(mg) |->
            [j \in 1..(w + 4) |->
                IF j <= w THEN CellStr(mg[i][j])
                ELSE IF j = w + 2 /\ taxidFloat /\ mg[i][w + 3] # NaNCell
                THEN IntAsFloatRepr(mg[i][w + 3])
                ELSE CellStr(mg[i][j + 1])]]

\* Line 92-93 for one row of m of width w+4: id, taxname, taxid, evalue, the
\* columns 3..w of msa_df, taxlineage
out_fields(row) ==
    LET w == Len(row) - 4
    IN  <<row[2], row[w + 3], row[w + 2], row[w + 1]>>
            \o SubSeq(row, 3, w) \o <<row[w + 4]>>

\* Lines 91-94: the list of sequences and the list of headers handed to to_fasta
out_a3m0(mm) == [i \in 1..Len(mm) |-> mm[i][1]]

out_a3m1(mm) == [i \in 1..Len(mm) |-> Join(out_fields(mm[i]), <<PIPE>>)]

---------------------------------------------------------------------------
(* get_paralogs_fasta: lines 102-125 *)

\* Number of names line 104 assigns to the columns of the frame it is given
NumParalogColumns == 15

\* Positions (1-based) of the names of line 104 that the function reads:
\* 'seq', 'id', 'tax', 'taxid', 'evalue', 'lineage'
ColSeq == 1
ColId == 2
ColTax == 3
ColTaxid == 4
ColEvalue == 8
ColLineage == 15

\* Order of DataFrame.sort_values([c1, c2]) on columns of strings
RowLess(a, b, c1, c2) ==
    \/ StrLess(a[c1], b[c1])
    \/ a[c1] = b[c1] /\ StrLess(a[c2], b[c2])

RECURSIVE InsertRow(_, _, _, _)
\* row goes behind every row that is not greater: equal rows keep their order
InsertRow(row, sorted, c1, c2) ==
    IF sorted = <<>> THEN <<row>>
    ELSE IF RowLess(row, Head(sorted), c1, c2) THEN <<row>> \o sorted
    ELSE <<Head(sorted)>> \o InsertRow(row, Tail(sorted), c1, c2)

RECURSIVE SortRows(_, _, _)
\* DataFrame.sort_values([c1, c2]): a stable sort
SortRows(df, c1, c2) ==
    IF df = <<>> THEN <<>>
    ELSE InsertRow(df[Len(df)], SortRows(SubSeq(df, 1, Len(df)-1), c1, c2), c1, c2)

\* Line 114
sort_values(df) == SortRows(df, ColTax, ColEvalue)

\* Line 115-116: the values of column 'tax' that occur more than once
paralog_taxa(df) ==
    {df[i][ColTax] : i \in {k \in 1..Len(df) :
        \E l \in 1..Len(df) : l # k /\ df[l][ColTax] = df[k][ColTax]}}

\* Line 122: the rows of the sorted frame whose 'tax' is one of the paralogs
paralog_rows(df) ==
    LET taxa == paralog_taxa(df)
    IN  SelectSeq(sort_values(df), LAMBDA row : row[ColTax] \in taxa)

\* Line 124
paralog_header(row) ==
    Join(<<row[ColId], row[ColTax], row[ColTaxid], row[ColEvalue], row[ColLineage]>>,
         <<PIPE>>)

\* Line 125, first argument: [ori_seq] + paralog_df['seq'] adds a list of one
\* string to a Series, which is the element-wise + of the Series: the one
\* string is put in front of every sequence
paralog_seq_list(ori_seq, rows) == [i \in 1..Len(rows) |-> ori_seq \o rows[i][ColSeq]]

\* Line 125, second argument: [ori_id] + headers, of two lists
paralog_id_list(ori_id, rows) ==
    <<ori_id>> \o [i \in 1..Len(rows) |-> paralog_header(rows[i])]

\* get_paralogs_fasta(msa_df, output_fn): the exception raised, whether
\* to_fasta wrote output_fn, and the text written
get_paralogs_fasta(df) ==
    \* line 104: fifteen names for a frame of another width
    IF Len(df[1]) # NumParalogColumns
    THEN [err |-> "ValueError", wrote |-> FALSE, text |-> <<>>]
    ELSE IF Cardinality(paralog_taxa(df)) > 2
    THEN LET rows == paralog_rows(df)
             w == to_fasta(paralog_seq_list(df[1][ColSeq], rows),
                           paralog_id_list(df[1][ColId], rows))
         IN  [err |-> w.err, wrote |-> w.err = "", text |-> w.text]
    ELSE [err |-> "", wrote |-> FALSE, text |-> <<>>]

\* Names of the files written for fn: f'{fn}.tax' and f'{fn.split(".")[0]}.paralog.a3m'
tax_name(fn) == fn \o <<".", "t", "a", "x">>

paralog_name(fn) ==
    SplitOn(fn, ".")[1] \o <<".", "p", "a", "r", "a", "l", "o", "g", ".", "a", "3", "m">>

---------------------------------------------------------------------------
(* Inputs *)

\* Most records of a generated alignment file
MaxRecs == 3
\* Most rows of a generated taxonomy table
MaxRows == 2
\* Most files glob finds in a directory
MaxFiles == 3
\* Longest text of the round trip
MaxLen == 4

\* All sequences over pool of length 0..n
SeqsUpTo(pool, n) == UNION {[1..k -> pool] : k \in 0..n}

\* Sequence of the record at position i of a generated file: all different
SeqPool == <<<<"A">>, <<"C">>, <<"G">>, <<"A", "A">>, <<"C", "C">>, <<"G", "G">>,
             <<"A", "C">>, <<"A", "G">>>>

\* Headers of generated files: one field, with an id no table row names; two
\* fields with '|' and with tab; three fields
HeaderPool ==
    { <<"q">>, <<"t", PIPE, "x">>, <<"t", TAB, "x">>, <<"u", PIPE, "x", PIPE, "y">> }

\* The text of a file with the given headers: ">header", sequence, line by line
FileText(headers) ==
    Flatten([i \in 1..Len(headers) |->
                <<GT>> \o headers[i] \o <<NL>> \o SeqPool[i] \o <<NL>>])

NarrowTexts == {FileText(h) : h \in SeqsUpTo(HeaderPool, MaxRecs)}

\* Texts without a record, and a text whose first line is no header
OddTexts == { <<HASH, "c", NL>>, <<NL, SPACE, NL>>, <<"A", NL, GT, "q", NL>> }

\* A header of ten tab-separated fields, as the search tool writes for a hit:
\* the id, then nine alignment fields, of which the model varies the second
\* (tax) and the seventh (ev)
WideHeader(id, tax, ev) ==
    Join(<<id, tax, <<"k">>, <<"c">>, <<"c">>, <<"c">>, ev, <<"c">>, <<"c">>, <<"c">>>>,
         <<TAB>>)

WideIds == << <<"t">>, <<"u">>, <<"v">>, <<"w">>, <<"p">>, <<"h">> >>

\* A query with a one-field header and six hits; the hits 1..3 have the second
\* fields x, y, z and the seventh field 5, the hits 4..6 have the second fields
\* given and the seventh field 10
WideText(taxa) ==
    FileText(<< <<"q">> >> \o
        [i \in 1..6 |->
            IF i <= 3 THEN WideHeader(WideIds[i], << <<"x">>, <<"y">>, <<"z">> >>[i], <<"5">>)
            ELSE WideHeader(WideIds[i], taxa[i - 3], <<"1", "0">>)])

WideTexts == {WideText(taxa) : taxa \in [1..3 -> { <<"x">>, <<"y">>, <<"z">> }]}

\* Contents of the file at msa_path
AllTexts == NarrowTexts \cup OddTexts \cup WideTexts

\* Contents of the files of a directory: a file of two records, a file
\* without records, a file of hits with ten fields
BatchTexts ==
    { FileText(<< <<"q">>, <<"t", PIPE, "x">> >>),
      <<>>,
      WideText(<< <<"x">>, <<"y">>, <<"z">> >>) }

\* Rows of the file at convertalis_path, split at the tabs: two rows that differ
\* only until line 72-74 has run, a second hit of the same target, another
\* target, a row of two fields and a row of six
RowPool ==
    { << <<"t">>, <<"1", "e", "-", "5">>, <<"9">>, <<"H", SPACE, "s">>, <<"e">> >>,
      << <<"t">>, <<"1", "e", "-", "0", "5">>, <<"9">>, <<"H", USCORE, "s">>, <<"e">> >>,
      << <<"t">>, <<"0", ".", "5">>, <<"1", "0">>, <<"M">>, <<"e">> >>,
      << <<"u">>, <<"2">>, <<"9">>, <<"H", SPACE, "s">>, <<"e">> >>,
      << <<"u">>, <<"0", ".", "5">> >>,
      << <<"w">>, <<"0", ".", "5">>, <<"1", "0">>, <<"M">>, <<"e">>, <<"x">> >> }

RawTables == SeqsUpTo(RowPool, MaxRows)

\* Paths glob may find, in the order it returns them
NameList ==
    << <<"a", ".", "a", "3", "m">>, <<"a", ".", "b", ".", "a", "3", "m">>,
       <<"c", ".", "a", "3", "m">>, <<"d", ".", "a", "3", "m">>,
       <<"e", ".", "a", "3", "m">> >>

---------------------------------------------------------------------------
(* add_tax_to_msa *)

\* The round trip is not part of a run of add_tax_to_msa
NoRt == <<>>

Init ==
    /\ pc = "load"
    /\ paralogs \in BOOLEAN
    /\ isdir \in BOOLEAN
    /\ listing \in IF isdir THEN {SubSeq(NameList, 1, n) : n \in 0..MaxFiles}
                   ELSE {SubSeq(NameList, 1, 1)}
    /\ raw_table \in RawTables
    /\ convertalis = <<>>
    /\ fns = <<>>
    /\ idx = 0
    /\ text = <<>>
    /\ msa_df = <<>>
    /\ m = <<>>
    /\ fs = <<>>
    /\ err = ""
    /\ rt = NoRt

\* The exception is swallowed and the loop goes on
RaiseAndContinue(e) == pc' = "next" /\ err' = e

\* An exception leaves add_tax_to_msa: nothing catches it
Raise(e) == pc' = "error" /\ err' = e

\* Lines 70-81
LoadTable ==
    /\ pc = "load"
    /\ LET r == load_convertalis(raw_table)
       IN  IF r.err # ""
           THEN Raise(r.err) /\ UNCHANGED <<convertalis, fns, idx>>
           ELSE IF listing = <<>>
           \* line 81
           THEN Raise("AssertionError") /\ convertalis' = r.df /\ UNCHANGED <<fns, idx>>
           ELSE /\ convertalis' = r.df
                /\ fns' = listing
                /\ idx' = 1
                /\ pc' = "open"
                /\ err' = err
    /\ UNCHANGED <<paralogs, isdir, listing, raw_table, text, msa_df, m, fs, rt>>

\* Lines 84-86: the file is read and parsed
OpenParse ==
    /\ pc = "open"
    /\ \E content \in (IF isdir THEN BatchTexts ELSE AllTexts) :
          LET r == parse_fasta_as_df(content)
          IN  /\ text' = content
              /\ IF r.err # ""
                 THEN Raise(r.err) /\ UNCHANGED msa_df
                 ELSE msa_df' = r.df /\ pc' = "merge" /\ err' = err
    /\ UNCHANGED <<paralogs, isdir, listing, raw_table, convertalis, fns, idx, m, fs, rt>>

\* Lines 89-94: the join, and the annotated file
Annotate ==
    /\ pc = "merge"
    /\ LET mm == merged_frame(msa_df, convertalis)
           w == to_fasta(out_a3m0(mm), out_a3m1(mm))
       IN  /\ m' = mm
           /\ IF w.err # ""
              THEN Raise(w.err) /\ UNCHANGED fs
              ELSE /\ fs' = Append(fs, [name |-> tax_name(fns[idx]), text |-> w.text])
                   /\ pc' = IF paralogs THEN "paralog" ELSE "next"
                   /\ err' = err
    /\ UNCHANGED <<paralogs, isdir, listing, raw_table, convertalis, fns, idx, text,
                   msa_df, rt>>

\* Lines 97-98
Paralogs ==
    /\ pc = "paralog"
    /\ LET r == get_paralogs_fasta(m)
       IN  IF r.err # ""
           THEN Raise(r.err) /\ UNCHANGED fs
           ELSE /\ fs' = IF r.wrote
                         THEN Append(fs, [name |-> paralog_name(fns[idx]), text |-> r.text])
                         ELSE fs
                /\ pc' = "next"
                /\ err' = err
    /\ UNCHANGED <<paralogs, isdir, listing, raw_table, convertalis, fns, idx, text,
                   msa_df, m, rt>>

\* Line 83: the for loop goes to the next path, or ends (line 99)
NextFile ==
    /\ pc = "next"
    /\ IF idx < Len(fns)
       THEN idx' = idx + 1 /\ pc' = "open"
       ELSE idx' = idx /\ pc' = "done"
    /\ UNCHANGED <<paralogs, isdir, listing, raw_table, convertalis, fns, text,
                   msa_df, m, fs, err, rt>>

Next == LoadTable \/ OpenParse \/ Annotate \/ Paralogs \/ NextFile

Spec == Init /\ [][Next]_vars

---------------------------------------------------------------------------
(* The round trip: parse_fasta, to_fasta on what it returned, parse_fasta again *)

RtAlphabet == {GT, NL, HASH, SPACE, "A", "C"}

RtTexts == SeqsUpTo(RtAlphabet, MaxLen)

NoParse == [err |-> "", sequences |-> <<>>, descriptions |-> <<>>]

NoWrite == [err |-> "", text |-> <<>>]

RtInit ==
    /\ pc = "rt_parse"
    /\ text \in RtTexts
    /\ rt = [parsed |-> NoParse, written |-> NoWrite, reparsed |-> NoParse]
    /\ paralogs = FALSE
    /\ isdir = FALSE
    /\ listing = <<>>
    /\ raw_table = <<>>
    /\ convertalis = <<>>
    /\ fns = <<>>
    /\ idx = 0
    /\ msa_df = <<>>
    /\ m = <<>>
    /\ fs = <<>>
    /\ err = ""

RtRest == <<paralogs, isdir, listing, raw_table, convertalis, fns, idx, text,
            msa_df, m, fs>>

\* sequences, descriptions = parse_fasta(text)
RtParse ==
    /\ pc = "rt_parse"
    /\ LET r == parse_fasta(text)
       IN  /\ rt' = [rt EXCEPT !.parsed = r]
           /\ IF r.err # "" THEN Raise(r.err) ELSE pc' = "rt_write" /\ err' = err
    /\ UNCHANGED RtRest

\* to_fasta(sequences, descriptions, output_fn)
RtWrite ==
    /\ pc = "rt_write"
    /\ LET w == to_fasta(rt.parsed.sequences, rt.parsed.descriptions)
       IN  /\ rt' = [rt EXCEPT !.written = w]
           /\ IF w.err # "" THEN Raise(w.err) ELSE pc' = "rt_reparse" /\ err' = err
    /\ UNCHANGED RtRest

\* parse_fasta of the text written
RtReparse ==
    /\ pc = "rt_reparse"
    /\ LET r == parse_fasta(rt.written.text)
       IN  /\ rt' = [rt EXCEPT !.reparsed = r]
           /\ IF r.err # "" THEN Raise(r.err) ELSE pc' = "rt_done" /\ err' = err
    /\ UNCHANGED RtRest

RtNext == RtParse \/ RtWrite \/ RtReparse

SpecRoundTrip == RtInit /\ [][RtNext]_vars

---------------------------------------------------------------------------
(* Vocabulary of the properties *)

\* The file at position idx has been annotated and its output written, and
\* m is the join of that file
Annotated == pc \in {"paralog", "next", "done"}

\* The separator of a file, read off the last of its headers
FileSep(descriptions) ==
    IF Contains(descriptions[Len(descriptions)], PIPE) THEN PIPE ELSE TAB

\* The header fields of every record: field 1 is the primary id
FieldsOf(descriptions) ==
    [i \in 1..Len(descriptions) |-> SplitOn(descriptions[i], FileSep(descriptions))]

\* Number of rows of the table whose target is id
HitCount(conv, id) == Cardinality({k \in 1..Len(conv) : conv[k][1] = id})

\* For every annotated record the position of the record that owns it, when
\* record i expands to max(1, HitCount) annotated records, in file order
OwnersOf(fields, conv) ==
    Flatten([i \in 1..Len(fields) |->
                [k \in 1..(IF HitCount(conv, fields[i][1]) = 0 THEN 1
                           ELSE HitCount(conv, fields[i][1])) |-> i]])

\* Whether fs holds a file of that name
Written(name) == \E k \in 1..Len(fs) : fs[k].name = name

\* The annotated file written for the file being processed, as lines: header
\* j is line 2j-1, sequence j is line 2j
TaxLines ==
    SplitOn(fs[CHOOSE k \in 1..Len(fs) : fs[k].name = tax_name(fns[idx])].text, NL)

\* '>' in front of a header, unless the header starts with one
WithGt(h) == IF StartsWith(h, GT) THEN h ELSE <<GT>> \o h

\* Whether s starts with the string p
HasPrefix(s, p) == Len(p) <= Len(s) /\ SubSeq(s, 1, Len(p)) = p

\* The run ended with an exception while the file at idx was open and had
\* parsed into at least one record
FailedAfterParse ==
    /\ pc = "error"
    /\ fns # <<>>
    /\ LET recs == parse_fasta(text)
       IN  recs.err = "" /\ recs.descriptions # <<>>

---------------------------------------------------------------------------
(* C1 *)

C1_Holds(recs, fields, owners, lines) ==
    /\ Len(m) = Len(owners)
    /\ Len(lines) = 2 * Len(m)
    /\ \A j \in 1..Len(m) :
          /\ m[j][1] = recs.sequences[owners[j]]
          /\ m[j][2] = fields[owners[j]][1]
          /\ lines[2 * j] = recs.sequences[owners[j]]
          /\ HasPrefix(lines[2 * j - 1], WithGt(fields[owners[j]][1] \o <<PIPE>>))

\* C1: the join emits, for every record of the file in file order, max(1, m)
\* annotated records, m the number of rows of the deduplicated table whose
\* target is the record's primary id; each carries the sequence and the id of
\* the record that owns it.  So the total is the sum of the fan-outs, N-1+M
\* when one record matches M rows and the others expand to one.
C1_JoinFanOut ==
    Annotated =>
        LET recs == parse_fasta(text)
            fields == FieldsOf(recs.descriptions)
        IN  C1_Holds(recs, fields, OwnersOf(fields, convertalis), TaxLines)

\* Three records of which the second matches two distinct rows and the others
\* match none: 3 - 1 + 2 = 4
C1_Witness ==
    /\ Annotated
    /\ LET fields == FieldsOf(parse_fasta(text).descriptions)
       IN  /\ Len(fields) = 3
           /\ HitCount(convertalis, fields[1][1]) = 0
           /\ HitCount(convertalis, fields[2][1]) = 2
           /\ HitCount(convertalis, fields[3][1]) = 0
    /\ Len(m) = 4

---------------------------------------------------------------------------
(* C2 *)

C2_Holds(fields, owners, lines) ==
    \A i \in 1..Len(fields) :
        HitCount(convertalis, fields[i][1]) = 0 =>
            /\ Cardinality({j \in 1..Len(owners) : owners[j] = i}) = 1
            /\ \A j \in 1..Len(owners) :
                  owners[j] = i =>
                      /\ j <= Len(m)
                      /\ SubSeq(m[j], Len(m[j]) - 3, Len(m[j]))
                            = <<NanStr, NanStr, NanStr, NanStr>>
                      /\ lines[2 * j - 1] =
                            WithGt(Join(<<fields[i][1], NanStr, NanStr, NanStr>>
                                           \o SubSeq(m[j], 3, Len(m[j]) - 4)
                                           \o <<NanStr>>,
                                        <<PIPE>>))

\* C2: a record whose primary id is the target of no table row yields exactly
\* one annotated record, whose written header is the id, "nan", "nan", "nan",
\* the other header columns and "nan", joined with '|'; and the join raises
\* nothing: a run that ends with an exception after the file parsed into
\* records has written that file's annotated output first.
C2_MissingMatch ==
    /\ Annotated =>
          LET fields == FieldsOf(parse_fasta(text).descriptions)
          IN  /\ Len(m) = Len(OwnersOf(fields, convertalis))
              /\ C2_Holds(fields, OwnersOf(fields, convertalis), TaxLines)
    /\ FailedAfterParse => Written(tax_name(fns[idx]))

\* A file whose first record matches no row and whose second record matches one
C2_Witness ==
    /\ Annotated
    /\ LET fields == FieldsOf(parse_fasta(text).descriptions)
       IN  /\ Len(fields) = 2
           /\ HitCount(convertalis, fields[1][1]) = 0
           /\ HitCount(convertalis, fields[2][1]) = 1
    /\ Len(m) = 2

---------------------------------------------------------------------------
(* C5 *)

C5_Holds(fields, owners, lines) ==
    \A j \in 1..Len(m) :
        LET own == fields[owners[j]]
            w == Len(m[j]) - 4
        IN  lines[2 * j - 1] =
                WithGt(Join(<<own[1], m[j][w + 3], m[j][w + 2], m[j][w + 1]>>
                               \o Tail(own) \o <<m[j][w + 4]>>,
                            <<PIPE>>))

\* C5: every annotated header written for a record whose header splits into
\* the id and k other fields is the '|'-join of k+5 fields: id, taxname,
\* taxid, evalue, the record's own k fields in their order, taxlineage; a
\* record with fewer fields than another gets no placeholder field.
C5_HeaderLayout ==
    Annotated =>
        LET fields == FieldsOf(parse_fasta(text).descriptions)
        IN  C5_Holds(fields, OwnersOf(fields, convertalis), TaxLines)

---------------------------------------------------------------------------
(* C6 *)

\* C6: loading the taxonomy table fails whenever one of its rows has not
\* exactly five fields, and then nothing is annotated or written.
C6_MalformedTable ==
    (pc # "load" /\ \E i \in 1..Len(raw_table) : Len(raw_table[i]) # NumTableColumns)
        => pc = "error" /\ fns = <<>> /\ fs = <<>>

---------------------------------------------------------------------------
(* C8 *)

\* C8: annotating a file without records (an empty text, or only blank and
\* '#' lines) raises nothing: no run ends with an exception while the file
\* being processed is one that parses into zero records.
C8_EmptyFile ==
    (fns # <<>> /\ pc \notin {"load", "open"}
        /\ LET recs == parse_fasta(text) IN recs.err = "" /\ recs.descriptions = <<>>)
        => pc # "error" /\ Written(tax_name(fns[idx]))

---------------------------------------------------------------------------
(* C9 *)

\* The cells of a row of msa_df that are header fields: the row without its
\* sequence and without the padding
RowFields(row) == SelectSeq(Tail(row), LAMBDA cell : cell # NoneCell)

C9_Holds(descriptions, sep) ==
    /\ Len(msa_df) = Len(descriptions)
    /\ \A i \in 1..Len(descriptions) :
          /\ Join(RowFields(msa_df[i]), <<sep>>) = descriptions[i]
          /\ \A k \in 1..Len(RowFields(msa_df[i])) : ~Contains(RowFields(msa_df[i])[k], sep)
          \* the padding is behind the fields
          /\ Tail(msa_df[i]) = RowFields(msa_df[i])
                \o [k \in 1..(Len(msa_df[i]) - 1 - Len(RowFields(msa_df[i]))) |-> NoneCell]

\* C9: the header of every record of a file is split at one separator, '|'
\* if the last record's header contains '|' and tab otherwise, whatever the
\* earlier headers contain; and a file with at least one record never fails
\* to parse for its headers: a run that ends with an exception after the
\* file parsed into records ended after the annotated output was written.
C9_Delimiter ==
    /\ pc = "merge" =>
          LET descriptions == parse_fasta(text).descriptions
          IN  C9_Holds(descriptions,
                       IF Contains(descriptions[Len(descriptions)], PIPE) THEN PIPE
                       ELSE TAB)
    /\ FailedAfterParse => Written(tax_name(fns[idx]))

\* A file whose first header has a tab and no '|' and whose last header has
\* a '|': the first header is left unsplit
C9_Witness ==
    /\ pc = "merge"
    /\ LET descriptions == parse_fasta(text).descriptions
       IN  /\ Len(descriptions) = 2
           /\ Contains(descriptions[1], TAB) /\ ~Contains(descriptions[1], PIPE)
           /\ Contains(descriptions[2], PIPE)
    /\ Len(RowFields(msa_df[1])) = 1
    /\ Len(RowFields(msa_df[2])) = 2

---------------------------------------------------------------------------
(* C7 *)

\* Whether name is the paralog file of one of the paths
IsParalogName(name) == \E k \in 1..Len(fns) : name = paralog_name(fns[k])

\* What holds of the files written at every point of a run over fns
C7_Order ==
    fns # <<>> =>
        \* the files before idx are complete, the files behind it untouched
        /\ \A k \in 1..Len(fns) : Written(tax_name(fns[k])) => k <= idx
        /\ \A k \in 1..(idx - 1) : Written(tax_name(fns[k]))
        \* the file at idx is read before it is written
        /\ pc \in {"open", "merge"} => ~Written(tax_name(fns[idx]))
        /\ Annotated => Written(tax_name(fns[idx]))
        \* the annotated files are written in the order of fns
        /\ \A a, b \in 1..Len(fs) : \A k, l \in 1..Len(fns) :
              (a < b /\ fs[a].name = tax_name(fns[k]) /\ fs[b].name = tax_name(fns[l]))
                  => k < l
        \* a paralog file is written right behind the annotated file of its path
        /\ \A b \in 1..Len(fs) :
              IsParalogName(fs[b].name) =>
                  /\ paralogs
                  /\ b > 1
                  /\ \E k \in 1..idx : /\ fs[b - 1].name = tax_name(fns[k])
                                       /\ fs[b].name = paralog_name(fns[k])

\* What holds of every step: no step leaves a state in which an exception was
\* raised (it is neither caught nor skipped), what was written stays as
\* written, and the step that raises writes nothing
C7_Step ==
    /\ pc # "error"
    /\ Len(fs') >= Len(fs)
    /\ SubSeq(fs', 1, Len(fs)) = fs
    /\ pc' = "error" => fs' = fs /\ idx' = idx

\* C7: the files of a directory are processed one after another, each file's
\* annotated output (and paralog selection) before the next file is read; a
\* failure ends the run: no later file is read or written, and what was
\* written before stays as written.
C7_BatchAbort == []C7_Order /\ [][C7_Step]_vars

\* Three files: the first written with its paralog file, the second failing in
\* its paralog step after its annotated output was written, the third untouched
C7_Witness ==
    /\ pc = "error"
    /\ isdir
    /\ Len(fns) = 3
    /\ idx = 2
    /\ Len(fs) = 3
    /\ fs[1].name = tax_name(fns[1])
    /\ fs[2].name = paralog_name(fns[1])
    /\ fs[3].name = tax_name(fns[2])

---------------------------------------------------------------------------
(* C3 and C10 *)

\* The paralog step of the file at idx has run: it returned, or it raised
\* (the annotated output of the file is written before it starts)
AfterParalogs ==
    /\ paralogs
    /\ fns # <<>>
    /\ \/ pc \in {"next", "done"}
       \/ pc = "error" /\ Written(tax_name(fns[idx]))

\* The paralog step of the file at idx wrote its file: the last file written
ParalogWritten == fs[Len(fs)].name = paralog_name(fns[idx])

\* The joined taxnames that more than one annotated record has
JoinedParalogTaxa ==
    LET c == Len(m[1]) - 1
    IN  {m[j][c] : j \in {a \in 1..Len(m) : \E b \in 1..Len(m) : b # a /\ m[b][c] = m[a][c]}}

C3_Holds(recs, taxa) ==
    IF Cardinality(taxa) <= 2 THEN ~ParalogWritten
    ELSE /\ ParalogWritten
         /\ LET out == parse_fasta(fs[Len(fs)].text)
            IN  /\ out.err = ""
                /\ out.descriptions # <<>>
                /\ out.descriptions[1] = FieldsOf(recs.descriptions)[1][1]
                /\ out.sequences[1] = recs.sequences[1]

\* C3: with two or fewer taxa of more than one record the paralog step writes
\* nothing; with three or more it writes records of which the first has the
\* id and the sequence of the first record of the input.
C3_ParalogThreshold == AfterParalogs => C3_Holds(parse_fasta(text), JoinedParalogTaxa)

C10_Holds(out, rows) ==
    /\ out.err = ""
    /\ Tail(out.descriptions) =
          [i \in 1..Len(rows) |->
              LET w == Len(rows[i]) - 4
              IN  Join(<<rows[i][2], rows[i][w + 3], rows[i][w + 2], rows[i][w + 1],
                         rows[i][w + 4]>>, <<PIPE>>)]
    /\ Tail(out.sequences) = [i \in 1..Len(rows) |-> rows[i][1]]

\* C10: the records of a paralog file behind the first are the annotated
\* records whose joined taxname more than one annotated record has, in
\* ascending order of (taxname, evalue) of the joined row compared as strings,
\* each under the header id|taxname|taxid|evalue|lineage of the joined row.
C10_ParalogContent ==
    (AfterParalogs /\ ParalogWritten) =>
        LET taxa == JoinedParalogTaxa
            w == Len(m[1]) - 4
        IN  C10_Holds(parse_fasta(fs[Len(fs)].text),
                      SelectSeq(SortRows(m, w + 3, w + 1),
                                LAMBDA row : row[w + 3] \in taxa))

---------------------------------------------------------------------------
(* C4 *)

\* C4: for every text that parse_fasta parses, to_fasta on the records and
\* parse_fasta on what it wrote give the same sequences and the same headers,
\* an empty header and a header that starts with '>' included.
C4_RoundTrip ==
    /\ pc = "error" => rt.parsed.err # ""
    /\ pc = "rt_done" =>
          /\ rt.reparsed.sequences = rt.parsed.sequences
          /\ rt.reparsed.descriptions = rt.parsed.descriptions

=============================================================================
